---- MODULE Spec2Model ----
(***************************************************************************)
(* Picking-Rate-Tool: the SuccessRateUI widget of src/py/cnt.py (session   *)
(* lifecycle, counters, derived statistics and their labels) and the       *)
(* earlier widget of src/cnt.py (counters and rate label only).            *)
(*                                                                         *)
(* Time.  time.time() returns a float number of seconds.  The wall clock   *)
(* is modelled as an integer count `now` of clock quanta, Hz quanta to the *)
(* second, so a timestamp q stands for q/Hz seconds.  The wall clock may   *)
(* be stepped backwards as well as advance.                                *)
(*                                                                         *)
(* Numbers.  Python floats are modelled as exact rationals [num, den] with *)
(* den > 0; [num |-> 0, den |-> 0] stands for a raised ZeroDivisionError.  *)
(* Binary rounding of the float operations (at most one unit in the last   *)
(* place) is not represented.                                              *)
(***************************************************************************)
EXTENDS Integers, Sequences, FiniteSets, TLC

\* ---------------------------------------------------------------- bounds
MaxCount == 4      \* cap on each counter (guards of the record handlers)
MaxTime  == 4      \* the clock reads 0..MaxTime quanta
MaxHours == 100    \* largest whole number of hours given to fmt_hms alone
Hz       == 2      \* clock quanta per second

\* -------------------------------------------------------------- key codes
Key_Left  == "Key_Left"
Key_Right == "Key_Right"
Key_Other == "Key_Return"
Keys      == {Key_Left, Key_Right, Key_Other}

VARIABLES
    success,         \* self.success
    fail,            \* self.fail
    running,         \* self.running
    t0,              \* self.t0 : None or <<quanta>>
    t1,              \* self.t1 : None or <<quanta>>
    timer_active,    \* self.timer.isActive()
    btn_start,       \* self.btn_start.isEnabled()
    btn_finish,      \* self.btn_finish.isEnabled()
    btn_success,     \* self.btn_success.isEnabled()
    btn_fail,        \* self.btn_fail.isEnabled()
    rate,            \* value of pct(...) at the last update_stats
    lbl_rate,        \* text of lbl_rate
    elapsed,         \* local `elapsed` of the last update_time_stats
    ipm,             \* local `ipm` of the last update_time_stats
    lbl_time,        \* text of lbl_time
    lbl_throughput,  \* text of lbl_throughput
    now,             \* the wall clock, in quanta
    op,              \* history: the handler that ran last
    acc              \* history: record events accepted since the last reset

model == <<success, fail, running, t0, t1>>
view  == <<timer_active, btn_start, btn_finish, btn_success, btn_fail,
           rate, lbl_rate, elapsed, ipm, lbl_time, lbl_throughput>>
vars  == <<model, view, now, op, acc>>

\* ------------------------------------------------------------- rationals
None == <<>>
Some(q) == <<q>>

Rat(n, d) == [num |-> n, den |-> d]
Int2Float(n) == Rat(n, 1)
ZeroDivisionError == Rat(0, 0)

\* a / b on floats; raises on b = 0
FloatDiv(a, b) ==
    IF b.num = 0 THEN ZeroDivisionError
    ELSE IF b.num > 0 THEN Rat(a.num * b.den, a.den * b.num)
    ELSE Rat(-(a.num * b.den), a.den * (-b.num))

FloatMul(a, b) == Rat(a.num * b.num, a.den * b.den)

\* a - b on timestamps held in quanta, as seconds
Seconds(q) == Rat(q, Hz)

\* int(x) for x >= 0
Trunc(x) == x.num \div x.den

\* format(x, ".1f") for x >= 0: the number of tenths, nearest, ties to even
Fmt1(x) ==
    LET n == 10 * x.num
        q == n \div x.den
        r == n % x.den
    IN  IF 2 * r > x.den \/ (2 * r = x.den /\ q % 2 = 1) THEN q + 1 ELSE q

\* format(n, "02d") for n >= 0: the decimal digits, zero-padded to width 2
RECURSIVE Digits(_)
Digits(n) == IF n < 10 THEN <<n>> ELSE Append(Digits(n \div 10), n % 10)

Pad2(n) == IF n < 10 THEN <<0, n>> ELSE Digits(n)

\* ------------------------------------------------------- module functions
\* variant: the fraction, not scaled to a percentage
pct_fraction(n, d) ==
    IF d = 0 THEN Int2Float(0)
    ELSE FloatDiv(Int2Float(n), Int2Float(d))

pct(n, d) ==
    IF d = 0 THEN Int2Float(0)
    ELSE FloatMul(FloatDiv(Int2Float(n), Int2Float(d)), Int2Float(100))

\* variant: the guard tests seconds < 0
per_minute_strict(total, seconds) ==
    IF seconds.num < 0 THEN Int2Float(0)
    ELSE FloatDiv(FloatMul(Int2Float(total), Int2Float(60)), seconds)

per_minute(total, seconds) ==
    IF seconds.num <= 0 THEN Int2Float(0)
    ELSE FloatDiv(FloatMul(Int2Float(total), Int2Float(60)), seconds)

\* variant: int(seconds) without max(0, .)
fmt_hms_unfloored(seconds) ==
    LET sec == IF seconds.num < 0 THEN -((-seconds.num) \div seconds.den)
               ELSE Trunc(seconds)
        h == sec \div 3600
        m == (sec % 3600) \div 60
        s == sec % 60
    IN  <<Pad2(h), Pad2(m), Pad2(s)>>

\* variant: the minutes are not reduced modulo the hour
fmt_hms_total_minutes(seconds) ==
    LET sec == IF seconds.num <= 0 THEN 0 ELSE Trunc(seconds)
        h == sec \div 3600
        m == sec \div 60
        s == sec % 60
    IN  <<Pad2(h), Pad2(m), Pad2(s)>>

fmt_hms(seconds) ==
    LET sec == IF seconds.num <= 0 THEN 0 ELSE Trunc(seconds)
        h == sec \div 3600
        m == (sec % 3600) \div 60
        s == sec % 60
    IN  <<Pad2(h), Pad2(m), Pad2(s)>>

\* ------------------------------------------------ src/py/cnt.py: helpers
\* Each helper runs after the assignments of the handler that calls it, so
\* it reads the primed fields.

update_enabled ==
    /\ btn_start'   = ~running'
    /\ btn_finish'  = running'
    /\ btn_success' = running'
    /\ btn_fail'    = running'

update_stats ==
    LET total == success' + fail'
    IN  /\ rate' = pct(success', total)
        /\ lbl_rate' = <<Fmt1(pct(success', total)), success', total>>

\* variant: the end of the interval is always the clock
elapsedSeconds_ignores_t1(a, b, clock) ==
    IF a = None THEN Int2Float(0)
    ELSE Seconds(clock - a[1])

\* the local `elapsed` (lines 190-194) for fields a, b and a clock reading
elapsedSeconds(a, b, clock) ==
    IF a = None THEN Int2Float(0)
    ELSE LET end == IF b # None THEN b[1] ELSE clock
         IN  Seconds(end - a[1])

\* `clock` is what time.time() returns if update_time_stats reads it
update_time_stats(clock) ==
    LET e     == elapsedSeconds(t0', t1', clock)
        total == success' + fail'
        i     == per_minute(total, e)
    IN  /\ elapsed' = e
        /\ ipm' = i
        /\ IF i = ZeroDivisionError
           THEN UNCHANGED <<lbl_time, lbl_throughput>>
           ELSE /\ lbl_time' = fmt_hms(e)
                /\ lbl_throughput' = Fmt1(i)

\* ----------------------------------------------- src/py/cnt.py: handlers
\* The handlers are slots of the widget; each may be invoked in every state.
\* (The enabled flags of the buttons and the timer only decide which of them
\* the GUI delivers.)

\* variant: starting clears the counters
start_session_resets_counts(clock2) ==
    IF running
    THEN UNCHANGED <<model, view, now, acc>>
    ELSE /\ running' = TRUE
         /\ t0' = Some(now)
         /\ t1' = None
         /\ timer_active' = TRUE
         /\ success' = 0
         /\ fail' = 0
         /\ acc' = [s |-> 0, f |-> 0]
         /\ update_stats
         /\ update_enabled
         /\ update_time_stats(clock2)
         /\ now' = clock2

\* variant: no early return while running
start_session_unguarded(clock2) ==
    /\ running' = TRUE
    /\ t0' = Some(now)
    /\ t1' = None
    /\ timer_active' = TRUE
    /\ UNCHANGED <<success, fail, rate, lbl_rate, acc>>
    /\ update_enabled
    /\ update_time_stats(clock2)
    /\ now' = clock2

\* variant: t1 is not cleared
start_session_keeps_t1(clock2) ==
    IF running
    THEN UNCHANGED <<model, view, now, acc>>
    ELSE /\ running' = TRUE
         /\ t0' = Some(now)
         /\ timer_active' = TRUE
         /\ UNCHANGED <<success, fail, t1, rate, lbl_rate, acc>>
         /\ update_enabled
         /\ update_time_stats(clock2)
         /\ now' = clock2

\* variant: t0 is not assigned
start_session_no_stamp(clock2) ==
    IF running
    THEN UNCHANGED <<model, view, now, acc>>
    ELSE /\ running' = TRUE
         /\ t1' = None
         /\ timer_active' = TRUE
         /\ UNCHANGED <<success, fail, t0, rate, lbl_rate, acc>>
         /\ update_enabled
         /\ update_time_stats(clock2)
         /\ now' = clock2

\* `clock2` is the second reading of time.time(), taken by update_time_stats
start_session(clock2) ==
    IF running
    THEN UNCHANGED <<model, view, now, acc>>
    ELSE /\ running' = TRUE
         /\ t0' = Some(now)
         /\ t1' = None
         /\ timer_active' = TRUE
         /\ UNCHANGED <<success, fail, rate, lbl_rate, acc>>
         /\ update_enabled
         /\ update_time_stats(clock2)
         /\ now' = clock2

\* variant: the timer is not stopped
finish_session_keeps_timer ==
    IF ~running
    THEN UNCHANGED <<model, view, now, acc>>
    ELSE /\ running' = FALSE
         /\ t1' = Some(now)
         /\ UNCHANGED <<success, fail, t0, timer_active, rate, lbl_rate, now, acc>>
         /\ update_enabled
         /\ update_time_stats(now)

finish_session ==
    IF ~running
    THEN UNCHANGED <<model, view, now, acc>>
    ELSE /\ running' = FALSE
         /\ t1' = Some(now)
         /\ timer_active' = FALSE
         /\ UNCHANGED <<success, fail, t0, rate, lbl_rate, now, acc>>
         /\ update_enabled
         /\ update_time_stats(now)

\* variant: t0 is not cleared
reset_session_keeps_t0 ==
    /\ success' = 0
    /\ fail' = 0
    /\ running' = FALSE
    /\ t1' = None
    /\ timer_active' = FALSE
    /\ acc' = [s |-> 0, f |-> 0]
    /\ UNCHANGED <<t0, now>>
    /\ update_stats
    /\ update_time_stats(now)
    /\ update_enabled

\* variant: the timestamps are not cleared
reset_session_keeps_stamps ==
    /\ success' = 0
    /\ fail' = 0
    /\ running' = FALSE
    /\ timer_active' = FALSE
    /\ acc' = [s |-> 0, f |-> 0]
    /\ UNCHANGED <<t0, t1, now>>
    /\ update_stats
    /\ update_time_stats(now)
    /\ update_enabled

reset_session ==
    /\ success' = 0
    /\ fail' = 0
    /\ running' = FALSE
    /\ t0' = None
    /\ t1' = None
    /\ timer_active' = FALSE
    /\ acc' = [s |-> 0, f |-> 0]
    /\ UNCHANGED now
    /\ update_stats
    /\ update_time_stats(now)
    /\ update_enabled

\* variant: no early return while not running
on_success_unguarded ==
    /\ success < MaxCount
    /\ success' = success + 1
    /\ acc' = [acc EXCEPT !.s = @ + 1]
    /\ UNCHANGED <<fail, running, t0, t1, now>>
    /\ UNCHANGED <<timer_active, btn_start, btn_finish, btn_success, btn_fail>>
    /\ update_stats
    /\ update_time_stats(now)

on_success ==
    IF ~running
    THEN UNCHANGED <<model, view, now, acc>>
    ELSE /\ success < MaxCount
         /\ success' = success + 1
         /\ acc' = [acc EXCEPT !.s = @ + 1]
         /\ UNCHANGED <<fail, running, t0, t1, now>>
         /\ UNCHANGED <<timer_active, btn_start, btn_finish, btn_success, btn_fail>>
         /\ update_stats
         /\ update_time_stats(now)

\* variant: the fail handler bumps the success counter
on_fail_counts_success ==
    IF ~running
    THEN UNCHANGED <<model, view, now, acc>>
    ELSE /\ success < MaxCount
         /\ success' = success + 1
         /\ acc' = [acc EXCEPT !.f = @ + 1]
         /\ UNCHANGED <<fail, running, t0, t1, now>>
         /\ UNCHANGED <<timer_active, btn_start, btn_finish, btn_success, btn_fail>>
         /\ update_stats
         /\ update_time_stats(now)

\* variant: the fail handler does not refresh the labels
on_fail_no_refresh ==
    IF ~running
    THEN UNCHANGED <<model, view, now, acc>>
    ELSE /\ fail < MaxCount
         /\ fail' = fail + 1
         /\ acc' = [acc EXCEPT !.f = @ + 1]
         /\ UNCHANGED <<success, running, t0, t1, now>>
         /\ UNCHANGED view

on_fail ==
    IF ~running
    THEN UNCHANGED <<model, view, now, acc>>
    ELSE /\ fail < MaxCount
         /\ fail' = fail + 1
         /\ acc' = [acc EXCEPT !.f = @ + 1]
         /\ UNCHANGED <<success, running, t0, t1, now>>
         /\ UNCHANGED <<timer_active, btn_start, btn_finish, btn_success, btn_fail>>
         /\ update_stats
         /\ update_time_stats(now)

\* QWidget.keyPressEvent: the base class changes nothing of the widget
super_keyPressEvent == UNCHANGED <<model, view, now, acc>>

\* variant: the two arrow keys are exchanged
keyPressEvent_swapped(k) ==
    IF ~running THEN super_keyPressEvent
    ELSE IF k = Key_Left THEN on_success
    ELSE IF k = Key_Right THEN on_fail
    ELSE super_keyPressEvent

keyPressEvent(k) ==
    IF ~running THEN super_keyPressEvent
    ELSE IF k = Key_Left THEN on_fail
    ELSE IF k = Key_Right THEN on_success
    ELSE super_keyPressEvent

\* variant: the tick restarts the interval
timeout_restamps ==
    /\ t0' = IF t0 # None THEN Some(now) ELSE t0
    /\ UNCHANGED <<success, fail, running, t1, now, acc>>
    /\ UNCHANGED <<timer_active, btn_start, btn_finish, btn_success, btn_fail>>
    /\ UNCHANGED <<rate, lbl_rate>>
    /\ update_time_stats(now)

\* the 1-second timer's timeout signal, connected to update_time_stats
timeout ==
    /\ UNCHANGED <<model, now, acc>>
    /\ UNCHANGED <<timer_active, btn_start, btn_finish, btn_success, btn_fail>>
    /\ UNCHANGED <<rate, lbl_rate>>
    /\ update_time_stats(now)

\* the session state the fields encode
State ==
    IF running THEN "Running"
    ELSE IF t0 # None THEN "Finished"
    ELSE "Idle"

\* history: handler h ran last, invoked in session state `from`
Ran(h) == op' = [h |-> h, from |-> State]

\* ----------------------------------------------------------- environment
ClockAdvance ==
    /\ \E c \in (now + 1)..MaxTime : now' = c
    /\ UNCHANGED <<model, view, acc>>
    /\ Ran("clock")

ClockStepBack ==
    /\ \E c \in 0..(now - 1) : now' = c
    /\ UNCHANGED <<model, view, acc>>
    /\ Ran("clock")

\* ------------------------------------------------- src/py/cnt.py: system
Init ==
    /\ success = 0
    /\ fail = 0
    /\ running = FALSE
    /\ t0 = None
    /\ t1 = None
    /\ timer_active = FALSE
    /\ rate = pct(0, 0)
    /\ lbl_rate = <<Fmt1(pct(0, 0)), 0, 0>>
    /\ btn_start = TRUE
    /\ btn_finish = FALSE
    /\ btn_success = FALSE
    /\ btn_fail = FALSE
    /\ elapsed = Int2Float(0)
    /\ ipm = Int2Float(0)
    /\ lbl_time = <<(<<0, 0>>), (<<0, 0>>), (<<0, 0>>)>>
    /\ lbl_throughput = 0
    /\ now \in 0..MaxTime
    /\ op = [h |-> "init", from |-> "Idle"]
    /\ acc = [s |-> 0, f |-> 0]

Start   == (\E c \in 0..MaxTime : start_session(c)) /\ Ran("start_session")
Finish  == finish_session /\ Ran("finish_session")
Reset   == reset_session /\ Ran("reset_session")
Success == on_success /\ Ran("on_success")
Fail    == on_fail /\ Ran("on_fail")
Tick    == timeout /\ Ran("update_time_stats")
KeyPress == \E k \in Keys : keyPressEvent(k) /\ Ran(k)

Next ==
    \/ Start
    \/ Finish
    \/ Reset
    \/ Success
    \/ Fail
    \/ Tick
    \/ KeyPress
    \/ ClockAdvance
    \/ ClockStepBack

Spec == Init /\ [][Next]_vars

\* --------------------------------------------------- src/cnt.py: widget
\* The earlier widget has the two counters and the rate label only.  It has
\* no session, no clock and no timer: the fields it lacks keep the values
\* below, so its session state is never Running.

legacy_pct(n, d) ==
    IF d = 0 THEN Int2Float(0)
    ELSE FloatMul(FloatDiv(Int2Float(n), Int2Float(d)), Int2Float(100))

update_rate ==
    LET total == success' + fail'
    IN  /\ rate' = legacy_pct(success', total)
        /\ lbl_rate' = <<Fmt1(legacy_pct(success', total)), success', total>>

legacy_absent ==
    <<running, t0, t1, timer_active, btn_start, btn_finish, btn_success,
      btn_fail, elapsed, ipm, lbl_time, lbl_throughput, now>>

legacy_on_success ==
    /\ success < MaxCount
    /\ success' = success + 1
    /\ acc' = [acc EXCEPT !.s = @ + 1]
    /\ UNCHANGED <<fail, legacy_absent>>
    /\ update_rate

legacy_on_fail ==
    /\ fail < MaxCount
    /\ fail' = fail + 1
    /\ acc' = [acc EXCEPT !.f = @ + 1]
    /\ UNCHANGED <<success, legacy_absent>>
    /\ update_rate

legacy_keyPressEvent(k) ==
    IF k = Key_Left THEN legacy_on_fail
    ELSE IF k = Key_Right THEN legacy_on_success
    ELSE UNCHANGED <<model, view, now, acc>>

LegacyInit ==
    /\ success = 0
    /\ fail = 0
    /\ rate = Int2Float(0)
    /\ lbl_rate = <<0, 0, 0>>
    /\ btn_success = TRUE
    /\ btn_fail = TRUE
    /\ running = FALSE
    /\ t0 = None
    /\ t1 = None
    /\ timer_active = FALSE
    /\ btn_start = FALSE
    /\ btn_finish = FALSE
    /\ elapsed = Int2Float(0)
    /\ ipm = Int2Float(0)
    /\ lbl_time = <<(<<0, 0>>), (<<0, 0>>), (<<0, 0>>)>>
    /\ lbl_throughput = 0
    /\ now = 0
    /\ op = [h |-> "init", from |-> "Idle"]
    /\ acc = [s |-> 0, f |-> 0]

LegacySuccess  == legacy_on_success /\ Ran("on_success")
LegacyFail     == legacy_on_fail /\ Ran("on_fail")
LegacyKeyPress == \E k \in Keys : legacy_keyPressEvent(k) /\ Ran(k)

LegacyNext ==
    \/ LegacySuccess
    \/ LegacyFail
    \/ LegacyKeyPress

SpecLegacy == LegacyInit /\ [][LegacyNext]_vars

\* ------------------------------------------------ fmt_hms on its own
\* The argument of fmt_hms is drawn from values around the field boundaries
\* (in quanta, negative values included); the one step formats it into the
\* time label, as line 199 does.
FmtInputs ==
    {((x[1] * 3600 + x[2] * 60 + x[3]) * Hz) + x[4] :
        x \in {0, 1, MaxHours - 1, MaxHours} \X {0, 1, 59} \X {0, 1, 59}
               \X (0..(Hz - 1))}
    \cup {-q : q \in 1..MaxTime}

FmtInit ==
    /\ success = 0
    /\ fail = 0
    /\ running = FALSE
    /\ t0 = None
    /\ t1 = None
    /\ timer_active = FALSE
    /\ rate = pct(0, 0)
    /\ lbl_rate = <<Fmt1(pct(0, 0)), 0, 0>>
    /\ btn_start = TRUE
    /\ btn_finish = FALSE
    /\ btn_success = FALSE
    /\ btn_fail = FALSE
    /\ elapsed \in {Seconds(q) : q \in FmtInputs}
    /\ ipm = Int2Float(0)
    /\ lbl_time = <<(<<0, 0>>), (<<0, 0>>), (<<0, 0>>)>>
    /\ lbl_throughput = 0
    /\ now = 0
    /\ op = [h |-> "init", from |-> "Idle"]
    /\ acc = [s |-> 0, f |-> 0]

FmtApply ==
    /\ op.h = "init"
    /\ lbl_time' = fmt_hms(elapsed)
    /\ Ran("fmt_hms")
    /\ UNCHANGED <<model, now, acc>>
    /\ UNCHANGED <<timer_active, btn_start, btn_finish, btn_success, btn_fail>>
    /\ UNCHANGED <<rate, lbl_rate, elapsed, ipm, lbl_throughput>>

FmtNext == FmtApply

SpecFmt == FmtInit /\ [][FmtNext]_vars

\* ================================================================ claims
Idle     == ~running /\ t0 = None
Finished == ~running /\ t0 # None
Total    == success + fail
RatEq(x, y) == x.num * y.den = y.num * x.den
RecordOps == {"on_success", "on_fail"}
ArrowKeys == {Key_Left, Key_Right}

\* C1: on_success() or on_fail() invoked while the session is not Running
\* (Idle or Finished) leaves success, fail, running, t0 and t1 unchanged.
C1_RecordRejectedWhenNotRunning ==
    [][(op'.h \in RecordOps /\ ~running) => UNCHANGED model]_vars

C1_Witness ==
    /\ op.h \in RecordOps
    /\ op.from = "Finished"
    /\ Finished
    /\ Total > 0

\* C2: in every version of the widget, a Left or Right arrow key press
\* received while the session is not Running changes neither success nor
\* fail.
C2_ArrowKeysOnlyWhileRunning ==
    [][(op'.h \in ArrowKeys /\ ~running) => UNCHANGED <<success, fail>>]_vars

\* C3: start_session() invoked while not Running sets running, sets t0 to
\* the current time, clears t1 and keeps success and fail; no start or
\* finish changes a counter.
C3_StartKeepsCounts ==
    [][/\ (op'.h = "start_session" /\ ~running) =>
            /\ running'
            /\ t0' = Some(now)
            /\ t1' = None
            /\ UNCHANGED <<success, fail>>
       /\ op'.h \in {"start_session", "finish_session"} =>
            UNCHANGED <<success, fail>>]_vars

C3_Witness ==
    /\ op = [h |-> "start_session", from |-> "Finished"]
    /\ running
    /\ t1 = None
    /\ success > 0
    /\ fail > 0

\* C4: start_session() while Running and finish_session() while not Running
\* change nothing: neither the fields nor what the widget shows.
C4_InvalidTransitionsAreNoOps ==
    [][((op'.h = "start_session" /\ running)
          \/ (op'.h = "finish_session" /\ ~running))
       => UNCHANGED <<model, view>>]_vars

C4_Witness ==
    /\ op = [h |-> "start_session", from |-> "Running"]
    /\ running
    /\ now > t0[1]

\* C5: reset_session() from any state gives success = 0, fail = 0, Idle,
\* both timestamps unset and elapsed 0; while Idle the elapsed time is 0
\* whatever the clock reads.
C5_ResetPost ==
    /\ success = 0
    /\ fail = 0
    /\ Idle
    /\ t1 = None
    /\ elapsed.num = 0
    /\ lbl_time = <<(<<0, 0>>), (<<0, 0>>), (<<0, 0>>)>>

C5_IdleElapsedZero ==
    Idle => /\ elapsedSeconds(t0, t1, now).num = 0
            /\ elapsed.num = 0

C5_ResetClears ==
    /\ [](C5_IdleElapsedZero)
    /\ [][op'.h = "reset_session" => C5_ResetPost']_vars

C5_Witness ==
    /\ op = [h |-> "reset_session", from |-> "Finished"]
    /\ Idle
    /\ now > 0
    /\ Total = 0
    /\ lbl_rate = <<0, 0, 0>>
    /\ elapsed.num = 0

\* C6: in the Finished state the elapsed time is t1 - t0, both as shown and
\* as evaluated at any later clock reading, and no step between two Finished
\* states changes it.
C6_FinishedElapsed ==
    Finished =>
        /\ t1 # None
        /\ RatEq(elapsedSeconds(t0, t1, now), Seconds(t1[1] - t0[1]))
        /\ RatEq(elapsed, Seconds(t1[1] - t0[1]))
        /\ lbl_time = fmt_hms(Seconds(t1[1] - t0[1]))

C6_ElapsedFrozenAfterFinish ==
    /\ [](C6_FinishedElapsed)
    /\ [][(Finished /\ Finished') => UNCHANGED <<t0, t1, elapsed, lbl_time>>]_vars

C6_Witness ==
    /\ Finished
    /\ op.h = "update_time_stats"
    /\ t1[1] > t0[1]
    /\ now > t1[1]

\* C7: t1 is set if and only if the session is Finished (not running, t0
\* set).
C7_EndStampIffFinished == (t1 # None) <=> Finished

C7_Witness ==
    /\ t1 # None
    /\ Finished
    /\ op.h = "finish_session"
    /\ op.from = "Running"

\* C8: t0 is unset only in Idle: when running, or when t1 is set, t0 is set.
C8_StartStampUnsetOnlyIdle == (running \/ t1 # None) => t0 # None

C8_Witness ==
    /\ running
    /\ t0 # None
    /\ op = [h |-> "start_session", from |-> "Idle"]

\* C9: after s accepted successes and f accepted fails since the last reset
\* the rate is 100*s/(s+f) when s+f > 0 and 0 when s = f = 0, and lies in
\* 0..100.
C9_RateIsPercentage ==
    /\ rate.den > 0
    /\ IF acc.s + acc.f = 0
       THEN rate.num = 0
       ELSE rate.num * (acc.s + acc.f) = 100 * acc.s * rate.den
    /\ 0 <= rate.num
    /\ rate.num <= 100 * rate.den

C9_Witness ==
    /\ acc = [s |-> 3, f |-> 1]
    /\ RatEq(rate, Int2Float(75))
    /\ lbl_rate = <<750, 3, 4>>

\* C10: the throughput is 0 when the elapsed time is <= 0 and otherwise
\* (success + fail) * 60 / elapsed; no division by zero happens.
Throughput(p, e) ==
    /\ p.den > 0
    /\ IF e.num <= 0
       THEN p.num = 0
       ELSE p.num * e.num = Total * 60 * e.den * p.den

C10_ThroughputGuarded ==
    /\ Throughput(ipm, elapsed)
    /\ LET e == elapsedSeconds(t0, t1, now)
       IN  Throughput(per_minute(Total, e), e)

C10_Witness ==
    /\ running
    /\ op.h \in RecordOps
    /\ Total > 0
    /\ elapsed.num = 0
    /\ ipm.num = 0
    /\ now = t0[1]


\* C11: while Running, on_success() adds exactly 1 to success and on_fail()
\* exactly 1 to fail, each leaving the other counter, running, t0 and t1
\* alone; no handler but reset_session lowers a counter, and the counters
\* equal the numbers of record events accepted since the last reset.
C11_CountersMatchAccepted ==
    /\ success = acc.s
    /\ fail = acc.f

C11_RecordStep ==
    /\ (op'.h = "on_success" /\ running) =>
          /\ success' = success + 1
          /\ UNCHANGED <<fail, running, t0, t1>>
    /\ (op'.h = "on_fail" /\ running) =>
          /\ fail' = fail + 1
          /\ UNCHANGED <<success, running, t0, t1>>
    /\ op'.h # "reset_session" =>
          /\ success' >= success
          /\ fail' >= fail

C11_RecordIncrementsByOne ==
    /\ [](C11_CountersMatchAccepted)
    /\ [][C11_RecordStep]_vars

C11_Witness ==
    /\ op = [h |-> "on_fail", from |-> "Running"]
    /\ running
    /\ fail >= 2
    /\ success >= 1
    /\ acc = [s |-> success, f |-> fail]


\* the number a field of the time label shows
RECURSIVE DigitsValue(_)
DigitsValue(d) ==
    IF Len(d) = 0 THEN 0
    ELSE 10 * DigitsValue(SubSeq(d, 1, Len(d) - 1)) + d[Len(d)]

\* the whole seconds a time label shows
ShownSeconds(lbl) ==
    DigitsValue(lbl[1]) * 3600 + DigitsValue(lbl[2]) * 60 + DigitsValue(lbl[3])

\* floor(max(0, e)) in whole seconds
Floor0(e) == IF e.num <= 0 THEN 0 ELSE e.num \div e.den

\* C12: the elapsed time is 0 when t0 is unset and otherwise (t1 if set,
\* else the clock) minus t0; what the time label and the throughput use of
\* it is floored at 0: with the clock earlier than t0 the label shows 0
\* seconds and the throughput is 0, never a negative value.
C12_ElapsedFlooredAtZero ==
    /\ LET e == elapsedSeconds(t0, t1, now)
       IN  IF t0 = None
           THEN e.num = 0
           ELSE RatEq(e, Seconds((IF t1 # None THEN t1[1] ELSE now) - t0[1]))
    /\ t0 = None => elapsed.num = 0
    /\ ShownSeconds(lbl_time) = Floor0(elapsed)
    /\ ShownSeconds(lbl_time) >= 0
    /\ ipm.den > 0
    /\ ipm.num >= 0
    /\ elapsed.num <= 0 => (ipm.num = 0 /\ lbl_throughput = 0)

C12_Witness ==
    /\ running
    /\ op.h \in RecordOps
    /\ Total > 0
    /\ elapsed.num <= -Hz
    /\ now < t0[1]
    /\ ShownSeconds(lbl_time) = 0
    /\ lbl_throughput = 0


\* C13: the periodic tick (update_time_stats fired by the timer) leaves
\* success, fail, running, t0 and t1 unchanged in every state; it only
\* rewrites the elapsed-time and throughput labels.
C13_TickStep ==
    op'.h = "update_time_stats" =>
        /\ UNCHANGED model
        /\ UNCHANGED <<timer_active, btn_start, btn_finish, btn_success, btn_fail>>
        /\ UNCHANGED <<rate, lbl_rate>>
        /\ lbl_time' = fmt_hms(elapsedSeconds(t0, t1, now))
        /\ lbl_throughput' = Fmt1(per_minute(Total, elapsedSeconds(t0, t1, now)))

C13_TickMutatesNothing == [][C13_TickStep]_vars

C13_Witness ==
    /\ op = [h |-> "update_time_stats", from |-> "Running"]
    /\ running
    /\ Total > 0
    /\ elapsed.num > 0
    /\ RatEq(elapsed, Seconds(now - t0[1]))
    /\ lbl_throughput > 0


\* C14: the labels are refreshed after every mutation: right after an
\* accepted start, finish or record, after every reset and after every tick,
\* the rate label shows the current success and total and the time and
\* throughput labels show the values of the current counts and timestamps at
\* that instant; so in every Idle or Finished state all three labels equal
\* the values derived from the current state.
C14_RateCurrent ==
    /\ lbl_rate[2] = success
    /\ lbl_rate[3] = Total
    /\ lbl_rate[1] = Fmt1(pct(success, Total))

C14_TimeCurrent ==
    /\ lbl_time = fmt_hms(elapsedSeconds(t0, t1, now))
    /\ lbl_throughput = Fmt1(per_minute(Total, elapsedSeconds(t0, t1, now)))

C14_Mutation ==
    \/ op'.h \in {"reset_session", "update_time_stats"}
    \/ (op'.h = "start_session" /\ ~running)
    \/ (op'.h = "finish_session" /\ running)
    \/ (op'.h \in RecordOps \cup ArrowKeys /\ running)

C14_LabelsRefreshed ==
    /\ [](C14_RateCurrent)
    /\ [](~running => C14_TimeCurrent)
    /\ [][C14_Mutation => (C14_RateCurrent' /\ C14_TimeCurrent')]_vars

C14_Witness ==
    /\ op = [h |-> "finish_session", from |-> "Running"]
    /\ Finished
    /\ success > 0
    /\ fail > 0
    /\ now > t0[1]
    /\ lbl_throughput > 0
    /\ ShownSeconds(lbl_time) >= 1


\* C15: every change of session state is Idle -> Running by start,
\* Running -> Finished by finish, Finished -> Running by start, or any state
\* -> Idle by reset; Finished is entered only from Running and Idle never
\* moves directly to Finished.
C15_Step ==
    State' # State =>
        \/ State = "Idle" /\ State' = "Running" /\ op'.h = "start_session"
        \/ State = "Running" /\ State' = "Finished" /\ op'.h = "finish_session"
        \/ State = "Finished" /\ State' = "Running" /\ op'.h = "start_session"
        \/ State' = "Idle" /\ op'.h = "reset_session"

C15_Lifecycle == [][C15_Step]_vars

C15_Witness ==
    /\ op = [h |-> "start_session", from |-> "Finished"]
    /\ State = "Running"
    /\ t1 = None
    /\ now < t0[1]


\* C16: in every reachable state the Start button is enabled iff the session
\* is not running, the Finish, Success and Fail buttons are enabled iff it is
\* running, and the refresh timer is active iff it is running.
C16_ControlsFollowRunning ==
    /\ btn_start = ~running
    /\ btn_finish = running
    /\ btn_success = running
    /\ btn_fail = running
    /\ timer_active = running

C16_Witness ==
    /\ op = [h |-> "finish_session", from |-> "Running"]
    /\ ~running
    /\ btn_start
    /\ ~btn_finish
    /\ ~btn_success
    /\ ~btn_fail
    /\ ~timer_active
    /\ Total > 0


\* C17: while Running a Left arrow key press has exactly the effect of
\* on_fail() and a Right arrow key press exactly the effect of on_success();
\* any other key changes no counter, no session field and no label.
C17_KeyStep ==
    /\ (running /\ op'.h = Key_Left) =>
          /\ on_fail
          /\ fail' = fail + 1
          /\ UNCHANGED <<success, running, t0, t1>>
    /\ (running /\ op'.h = Key_Right) =>
          /\ on_success
          /\ success' = success + 1
          /\ UNCHANGED <<fail, running, t0, t1>>
    /\ op'.h = Key_Other => UNCHANGED <<model, view>>

C17_ArrowKeysRecord == [][C17_KeyStep]_vars

C17_Witness ==
    /\ op = [h |-> Key_Left, from |-> "Running"]
    /\ running
    /\ fail > 0
    /\ success > 0
    /\ lbl_rate[3] = success + fail


\* what fmt_hms(elapsed) must show in every case: the three fields are decimal
\* digits, hours*3600 + minutes*60 + seconds is floor(max(0, e)), and the
\* minutes and seconds are within 0..59
FieldIsDecimal(d) == \A i \in 1..Len(d) : d[i] \in 0..9

FmtFields ==
    /\ \A i \in 1..3 : FieldIsDecimal(lbl_time[i])
    /\ ShownSeconds(lbl_time) = Floor0(elapsed)
    /\ DigitsValue(lbl_time[2]) \in 0..59
    /\ DigitsValue(lbl_time[3]) \in 0..59

\* C18 (as claimed): for every elapsed value e, fmt_hms(e) shows h, m, s with
\* h*3600 + m*60 + s = floor(max(0, e)), m and s within 0..59, and each of
\* the three fields exactly two digits long.
C18_AllFieldsTwoDigits ==
    op.h = "fmt_hms" =>
        /\ FmtFields
        /\ \A i \in 1..3 : Len(lbl_time[i]) = 2

\* C18 (amended): the same, but only the minutes and seconds fields are
\* always two digits long; the hours field is two digits long while
\* floor(max(0, e)) < 360000 (under 100 hours) and longer from there on.
C18_HoursAtLeastTwoDigits ==
    op.h = "fmt_hms" =>
        /\ FmtFields
        /\ Len(lbl_time[2]) = 2
        /\ Len(lbl_time[3]) = 2
        /\ IF Floor0(elapsed) < 360000
           THEN Len(lbl_time[1]) = 2
           ELSE Len(lbl_time[1]) > 2

C18_Witness ==
    /\ op.h = "fmt_hms"
    /\ Floor0(elapsed) >= 360000
    /\ elapsed.num % Hz # 0
    /\ lbl_time = <<(<<1, 0, 0>>), (<<5, 9>>), (<<5, 9>>)>>

====
